---------------------------- MODULE Spec2Model ----------------------------
(***************************************************************************)
(* A model of rwols::SafeQueue (include/rwols/SafeQueue.hpp): a blocking   *)
(* FIFO queue guarded by one mutex, with a counter of unfinished tasks,    *)
(* two condition variables (mNotEmpty, mAllTasksDone) and the scope-bound  *)
(* TaskDoneGuard.  Threads call the public operations in any interleaving; *)
(* every operation is split at the points where the code takes or gives up *)
(* the mutex, so that each action is one atomic piece of the code.         *)
(***************************************************************************)
EXTENDS Integers, Sequences, FiniteSets

(* ------------------------------ bounds -------------------------------- *)

\* number of threads using the queue
NumThreads == 2
\* number of enqueue calls (Push, Emplace, PushAndJoin, EmplaceAndJoin) made
MaxPush == 2
\* number of direct TaskDone() calls made by user code
MaxTaskDone == 2
\* number of guards made: by a call of PopWithGuard or by a move construction
MaxGuards == 2
\* width in bits of the model's std::size_t (64 in the build); the counter
\* arithmetic is modulo 2^SizeBits
SizeBits == 3

Threads == 1..NumThreads
GuardIds == 1..MaxGuards
SizeMod == 2 ^ SizeBits

\* Push(const_reference), Push(value_type &&) and Emplace have the same body
\* but for how the item is made, and so have PushAndJoin (both overloads) and
\* EmplaceAndJoin: a thread in any of the first three executes "Push", a
\* thread in any of the others "PushAndJoin".  "Dtor" is ~SafeQueue(), which
\* waits for the drain by calling Join().
EnqueueOps == {"Push", "PushAndJoin"}
DrainOps == {"Join", "PushAndJoin", "Dtor"}
PopOps == {"Pop", "PopTimed", "PopWithGuard", "PopWithGuardTimed"}
TimedOps == {"PopTimed", "PopWithGuardTimed"}
GuardedOps == {"PopWithGuard", "PopWithGuardTimed"}

VARIABLES
  ndebug,            \* build configuration: TRUE when assert() is compiled out
  aborted,           \* TRUE once an assert() has failed (the process is gone)
  mQ,                \* the item buffer, head first
  mUnfinishedTasks,  \* the task counter, a std::size_t
  mMutex,            \* the thread that holds mMutex, 0 when it is free
  pc,                \* each thread's position in the operation it executes
  op,                \* the operation each thread executes, "none" when idle
  item,              \* the item a thread's Pop took from the buffer
  result,            \* how a thread's call ended: "none", "ok", "timeout"
  expired,           \* the timeout of a thread's timed wait has passed
  tmpGuard,          \* the temporary TaskDoneGuard(this) of a PopWithGuard
  guard,             \* the guard objects held by user code
  nTaskDone,         \* number of direct TaskDone() calls made so far
  nGuards,           \* number of guard objects made or asked for so far
  pushed,            \* history: the items appended, in the order of appending
  popped,            \* history: the items removed, in the order of removal
  doneCount,         \* history: number of completed decrements
  signalled,         \* history: TaskDone calls made by guards, per dequeue
  handedOut,         \* history: the dequeues that returned a guard
  doneAtEnq          \* history: doneCount when a thread's PushAndJoin appended

vars == <<ndebug, aborted, mQ, mUnfinishedTasks, mMutex, pc, op, item, result,
          expired, tmpGuard, guard, nTaskDone, nGuards, pushed,
          popped, doneCount, signalled, handedOut, doneAtEnq>>

queueVars == <<mQ, mUnfinishedTasks>>
histVars == <<pushed, popped, doneCount, signalled, handedOut, doneAtEnq>>
guardVars == <<tmpGuard, guard, nGuards>>
localVars == <<item, result, expired>>

(* ----------------------- pure pieces of the code ----------------------- *)

\* an increment that was forgotten
IncrForgotten(n) == n

\* ++mUnfinishedTasks on a std::size_t
Incr(n) == (n + 1) % SizeMod

\* a decrement by two
DecrByTwo(n) == (n + SizeMod - 2) % SizeMod

\* --mUnfinishedTasks on a std::size_t
Decr(n) == (n + SizeMod - 1) % SizeMod

\* a push that puts the item at the head
QPushFront(q, x) == <<x>> \o q

\* mQ.push(item) / mQ.emplace(args...)
QPush(q, x) == Append(q, x)

\* a front() that reads the tail end
QBack(q) == q[Len(q)]

\* mQ.front()
QFront(q) == Head(q)

\* a pop() that empties the buffer
QPopAll(q) == <<>>

\* mQ.pop()
QPop(q) == Tail(q)

\* the predicate of the waits on mNotEmpty: [this]() { return !mQ.empty(); }
NotEmptyPred(q) == q # <<>>

\* a drain predicate that is off by one
AllTasksDonePredOffByOne(n) == n <= 1

\* the predicate of the waits on mAllTasksDone
AllTasksDonePred(n) == n = 0

\* the condition under which TaskDone() notifies mAllTasksDone
TaskDoneNotifies(n) == n = 0

\* the condition of assert(mUnfinishedTasks > 0) in TaskDone()
TaskDoneAssert(n) == n > 0

(* --------------------------- TaskDoneGuard ----------------------------- *)

\* the value nullptr of TaskDoneGuard::mQ
NullQ == 0

\* tmpGuard of a thread that holds no temporary guard
NoGuard == -1

\* TaskDoneGuard(SafeQueue *q) : mQ(q), called with this.  A guard's mQ is
\* modelled by 0 for nullptr and by a number >= 1 for the queue; the number
\* is the dequeue the pointer was created for, which the code does not store
\* and never reads.
GuardCtor(tag) == tag

\* TaskDoneGuard(TaskDoneGuard &&other): the new guard's mQ
MoveCtorSelf(otherQ) == otherQ

\* TaskDoneGuard(TaskDoneGuard &&other): what other.mQ becomes
MoveCtorOther(otherQ) == NullQ

\* a move assignment that leaves the source as it is
MoveAssignKeepsSource(gs, dst, src) == [gs EXCEPT ![dst].q = gs[src].q]

\* operator=(TaskDoneGuard &&other): mQ = other.mQ; other.mQ = nullptr;
\* on the guard objects gs, with dst = *this and src = other
MoveAssign(gs, dst, src) ==
  [[gs EXCEPT ![dst].q = gs[src].q] EXCEPT ![src].q = NullQ]

\* a destructor that never signals
DtorNeverCallsTaskDone(q) == FALSE

\* ~TaskDoneGuard(): if (mQ) mQ->TaskDone();
DtorCallsTaskDone(q) == q # NullQ

(* --------------------- mutex and condition variables ------------------- *)

\* threads suspended in a wait on mNotEmpty
NotEmptyWaiters == {t \in Threads : pc[t] = "asleep" /\ op[t] \in PopOps}

\* threads suspended in a wait on mAllTasksDone
AllTasksDoneWaiters == {t \in Threads : pc[t] = "asleep" /\ op[t] \in DrainOps}

\* a notify_one that wakes nobody
NotifyNobody(waiters, w, p) == p

\* condition_variable::notify_one on a set of suspended threads: the new pc
NotifyOne(waiters, w, p) ==
  IF waiters = {} THEN p ELSE [p EXCEPT ![w] = "woken"]

\* condition_variable::notify_all
NotifyAll(waiters, p) == [t \in Threads |-> IF t \in waiters THEN "woken" ELSE p[t]]

\* A freshly constructed queue, in either build: assert() is a no-op when the
\* header is compiled with NDEBUG, and aborts the process otherwise.
Init ==
  /\ ndebug \in BOOLEAN
  /\ aborted = FALSE
  /\ mQ = <<>>
  /\ mUnfinishedTasks = 0
  /\ mMutex = 0
  /\ pc = [t \in Threads |-> "idle"]
  /\ op = [t \in Threads |-> "none"]
  /\ item = [t \in Threads |-> 0]
  /\ result = [t \in Threads |-> "none"]
  /\ expired = [t \in Threads |-> FALSE]
  /\ tmpGuard = [t \in Threads |-> NoGuard]
  /\ guard = [g \in GuardIds |-> [st |-> "unborn", q |-> NullQ]]
  /\ nTaskDone = 0
  /\ nGuards = 0
  /\ pushed = <<>>
  /\ popped = <<>>
  /\ doneCount = 0
  /\ signalled = [g \in GuardIds |-> 0]
  /\ handedOut = {}
  /\ doneAtEnq = [t \in Threads |-> 0]

(* ------------------------------- enqueue ------------------------------- *)

\* the item an enqueue appends: items are numbered in the order of appending
NewItem == Len(pushed) + 1

\* a thread calls an enqueue operation and gets the mutex:
\* LockGuard lock(mMutex) / UniqueLock lock(mMutex)
CallEnqueue(t, o) ==
  /\ ~aborted /\ pc[t] = "idle" /\ mMutex = 0
  /\ Len(pushed) < MaxPush
  /\ mMutex' = t
  /\ op' = [op EXCEPT ![t] = o]
  /\ pc' = [pc EXCEPT ![t] = "body"]
  /\ UNCHANGED <<ndebug, aborted, queueVars, localVars, guardVars, nTaskDone,
                 histVars>>

CallPush(t) == CallEnqueue(t, "Push")

CallEmplace(t) == CallEnqueue(t, "Push")

CallPushAndJoin(t) == CallEnqueue(t, "PushAndJoin")

CallEmplaceAndJoin(t) == CallEnqueue(t, "PushAndJoin")

\* mQ.push(item); ++mUnfinishedTasks; and the end of the LockGuard's scope
PushBody(t) ==
  /\ ~aborted /\ pc[t] = "body" /\ op[t] = "Push" /\ mMutex = t
  /\ mQ' = QPush(mQ, NewItem)
  /\ mUnfinishedTasks' = Incr(mUnfinishedTasks)
  /\ mMutex' = 0
  /\ pushed' = Append(pushed, NewItem)
  /\ pc' = [pc EXCEPT ![t] = "notify"]
  /\ UNCHANGED <<ndebug, aborted, op, localVars, guardVars, nTaskDone,
                 popped, doneCount, signalled, handedOut, doneAtEnq>>

\* mNotEmpty.notify_one() of Push and Emplace, made after the unlock
PushNotify(t) ==
  /\ ~aborted /\ pc[t] = "notify" /\ op[t] = "Push"
  /\ \E w \in Threads :
       /\ NotEmptyWaiters # {} => w \in NotEmptyWaiters
       /\ NotEmptyWaiters = {} => w = t
       /\ pc' = [NotifyOne(NotEmptyWaiters, w, pc) EXCEPT ![t] = "ret"]
  /\ result' = [result EXCEPT ![t] = "ok"]
  /\ UNCHANGED <<ndebug, aborted, queueVars, mMutex, op, item, expired,
                 guardVars, nTaskDone, histVars>>

\* mQ.push(item); ++mUnfinishedTasks; mNotEmpty.notify_one(); under the
\* UniqueLock of PushAndJoin and EmplaceAndJoin, which stays locked
PushAndJoinBody(t) ==
  /\ ~aborted /\ pc[t] = "body" /\ op[t] = "PushAndJoin" /\ mMutex = t
  /\ mQ' = QPush(mQ, NewItem)
  /\ mUnfinishedTasks' = Incr(mUnfinishedTasks)
  /\ pushed' = Append(pushed, NewItem)
  /\ \E w \in Threads :
       /\ NotEmptyWaiters # {} => w \in NotEmptyWaiters
       /\ NotEmptyWaiters = {} => w = t
       /\ pc' = [NotifyOne(NotEmptyWaiters, w, pc) EXCEPT ![t] = "wait"]
  /\ doneAtEnq' = [doneAtEnq EXCEPT ![t] = doneCount]
  /\ UNCHANGED <<ndebug, aborted, mMutex, op, localVars, guardVars, nTaskDone,
                 popped, doneCount, signalled, handedOut>>

(* -------------------------------- Join --------------------------------- *)

\* a thread calls Join() and gets the mutex: UniqueLock lock(mMutex)
CallJoin(t) ==
  /\ ~aborted /\ pc[t] = "idle" /\ mMutex = 0
  /\ mMutex' = t
  /\ op' = [op EXCEPT ![t] = "Join"]
  /\ pc' = [pc EXCEPT ![t] = "wait"]
  /\ UNCHANGED <<ndebug, aborted, queueVars, localVars, guardVars, nTaskDone,
                 histVars>>

\* where a thread goes on when its wait on mAllTasksDone has returned: the
\* destructor goes on after its Join(), the other operations return
AfterDrain(o) == IF o = "Dtor" THEN "dtor_assert" ELSE "ret"

\* one round of mAllTasksDone.wait(lock, pred) with the mutex held: return
\* (the UniqueLock unlocks) when the predicate holds, else unlock and suspend
DrainWait(t) ==
  /\ ~aborted /\ pc[t] = "wait" /\ op[t] \in DrainOps /\ mMutex = t
  /\ mMutex' = 0
  /\ IF AllTasksDonePred(mUnfinishedTasks)
       THEN /\ pc' = [pc EXCEPT ![t] = AfterDrain(op[t])]
            /\ result' = [result EXCEPT ![t] = "ok"]
       ELSE /\ pc' = [pc EXCEPT ![t] = "asleep"]
            /\ UNCHANGED result
  /\ UNCHANGED <<ndebug, aborted, queueVars, op, item, expired, guardVars,
                 nTaskDone, histVars>>

(* ----------------------------- ~SafeQueue ------------------------------ *)

\* the queue exists: no thread has finished destroying it
QueueLives == \A t \in Threads : pc[t] # "destroyed"

\* an assertion with the condition negated
DtorAssertCondNegated(n) == n # 0

\* the condition of assert(mUnfinishedTasks == 0) in ~SafeQueue()
DtorAssertCond(n) == n = 0

\* ~SafeQueue() starts in thread t with the UniqueLock of its Join()
EnterDtor(t) ==
  /\ ~aborted /\ mMutex = 0
  /\ \A u \in Threads : op[u] # "Dtor"
  /\ mMutex' = t
  /\ op' = [op EXCEPT ![t] = "Dtor"]
  /\ pc' = [pc EXCEPT ![t] = "wait"]
  /\ result' = [result EXCEPT ![t] = "none"]
  /\ UNCHANGED <<ndebug, aborted, queueVars, item, expired, guardVars,
                 nTaskDone, histVars>>

\* the queue goes out of scope in a thread that is not inside a call
CallDtor(t) == pc[t] = "idle" /\ EnterDtor(t)

\* q.Join(); } : Join() has returned to the thread that owns the queue, and
\* the queue goes out of scope
JoinThenDtor(t) == pc[t] = "ret" /\ op[t] = "Join" /\ EnterDtor(t)

\* assert(mUnfinishedTasks == 0) once Join() has returned and released the
\* mutex, and then the destruction of the members.  The assertion reads the
\* counter without the mutex; with NDEBUG there is no assertion and no read.
DtorAssert(t) ==
  /\ ~aborted /\ pc[t] = "dtor_assert" /\ op[t] = "Dtor"
  /\ IF ~ndebug /\ ~DtorAssertCond(mUnfinishedTasks)
       THEN aborted' = TRUE /\ UNCHANGED pc
       ELSE pc' = [pc EXCEPT ![t] = "destroyed"] /\ UNCHANGED aborted
  /\ UNCHANGED <<ndebug, queueVars, mMutex, op, localVars, guardVars,
                 nTaskDone, histVars>>

(* --------------------------------- Pop --------------------------------- *)

\* the guard object that the next guard construction in user code makes
FreshGuard == CHOOSE g \in GuardIds :
  /\ guard[g].st = "unborn"
  /\ \A h \in GuardIds : guard[h].st = "unborn" => g <= h

\* a thread calls Pop(), Pop(timeout), PopWithGuard() or PopWithGuard(timeout)
\* and gets the mutex.  The two arguments of
\* std::make_pair(Pop(..), TaskDoneGuard(this)) are evaluated in either
\* order: with guardFirst the temporary guard is made before Pop runs.
CallPop(t, o, guardFirst) ==
  /\ ~aborted /\ pc[t] = "idle" /\ mMutex = 0
  /\ o \in GuardedOps => nGuards < MaxGuards
  /\ nGuards' = IF o \in GuardedOps THEN nGuards + 1 ELSE nGuards
  /\ mMutex' = t
  /\ op' = [op EXCEPT ![t] = o]
  /\ pc' = [pc EXCEPT ![t] = "wait"]
  /\ tmpGuard' = [tmpGuard EXCEPT ![t] =
                    IF guardFirst THEN GuardCtor(1) ELSE NoGuard]
  /\ UNCHANGED <<ndebug, aborted, queueVars, localVars, guard, nTaskDone,
                 histVars>>

CallPopUntimed(t) == CallPop(t, "Pop", FALSE)

CallPopTimed(t) == CallPop(t, "PopTimed", FALSE)

CallPopWithGuard(t) == \E gf \in BOOLEAN : CallPop(t, "PopWithGuard", gf)

CallPopWithGuardTimed(t) ==
  \E gf \in BOOLEAN : CallPop(t, "PopWithGuardTimed", gf)

\* a wait_for that gives up when its time is over without looking at the
\* predicate again
PopWaitOutcomeTimeFirst(q, timed, exp) ==
  IF timed /\ exp THEN "throw"
  ELSE IF NotEmptyPred(q) THEN "take"
  ELSE "suspend"

\* what a round of a wait on mNotEmpty does with the mutex held: go on to
\* take the item when the predicate holds; else leave with TimeoutError when
\* the wait is timed and its time is over; else suspend
PopWaitOutcome(q, timed, exp) ==
  IF NotEmptyPred(q) THEN "take"
  ELSE IF timed /\ exp THEN "throw"
  ELSE "suspend"

\* one round of mNotEmpty.wait(lock, pred) / wait_for(lock, timeout, pred)
PopWait(t) ==
  /\ ~aborted /\ pc[t] = "wait" /\ op[t] \in PopOps /\ mMutex = t
  /\ LET out == PopWaitOutcome(mQ, op[t] \in TimedOps, expired[t]) IN
       /\ out = "take" =>
            /\ pc' = [pc EXCEPT ![t] = "body"]
            /\ UNCHANGED <<mMutex, result, tmpGuard>>
       /\ out = "suspend" =>
            /\ pc' = [pc EXCEPT ![t] = "asleep"]
            /\ mMutex' = 0
            /\ UNCHANGED <<result, tmpGuard>>
       \* throw TimeoutError(): the UniqueLock unlocks; a temporary guard
       \* made before Pop(timeout) is destroyed while the stack unwinds
       /\ out = "throw" =>
            /\ mMutex' = 0
            /\ IF tmpGuard[t] # NoGuard /\ DtorCallsTaskDone(tmpGuard[t])
                 THEN /\ pc' = [pc EXCEPT ![t] = "td_lock"]
                      /\ UNCHANGED <<result, tmpGuard>>
                 ELSE /\ pc' = [pc EXCEPT ![t] = "ret"]
                      /\ result' = [result EXCEPT ![t] = "timeout"]
                      /\ tmpGuard' = [tmpGuard EXCEPT ![t] = NoGuard]
  /\ UNCHANGED <<ndebug, aborted, queueVars, op, item, expired, guard,
                 nGuards, nTaskDone, histVars>>

\* auto item = std::move(mQ.front()); mQ.pop(); lock.unlock();
PopBody(t) ==
  /\ ~aborted /\ pc[t] = "body" /\ op[t] \in PopOps /\ mMutex = t
  /\ item' = [item EXCEPT ![t] = QFront(mQ)]
  /\ mQ' = QPop(mQ)
  /\ mMutex' = 0
  /\ popped' = Append(popped, QFront(mQ))
  /\ IF op[t] \in GuardedOps
       THEN /\ pc' = [pc EXCEPT ![t] = "mkpair"]
            /\ UNCHANGED result
       ELSE /\ pc' = [pc EXCEPT ![t] = "ret"]
            /\ result' = [result EXCEPT ![t] = "ok"]
  /\ UNCHANGED <<ndebug, aborted, mUnfinishedTasks, op, expired, guardVars,
                 nTaskDone, pushed, doneCount, signalled, handedOut, doneAtEnq>>

\* std::make_pair(item, TaskDoneGuard(this)) once Pop has returned: the
\* temporary guard is made now unless it was made first, the pair's guard
\* is move-constructed from it, and the temporary is destroyed
MakePair(t) ==
  /\ ~aborted /\ pc[t] = "mkpair" /\ op[t] \in GuardedOps
  /\ LET g == FreshGuard
         tmp == IF tmpGuard[t] = NoGuard THEN GuardCtor(1) ELSE tmpGuard[t]
         mine == MoveCtorSelf(tmp)
         left == MoveCtorOther(tmp)
     IN /\ guard' = [guard EXCEPT ![g] =
                       [st |-> "alive", q |-> IF mine = NullQ THEN NullQ ELSE g]]
        \* ~TaskDoneGuard() of the temporary, which no longer calls TaskDone
        /\ ~DtorCallsTaskDone(left)
        /\ tmpGuard' = [tmpGuard EXCEPT ![t] = NoGuard]
  /\ handedOut' = handedOut \cup {FreshGuard}
  /\ pc' = [pc EXCEPT ![t] = "ret"]
  /\ result' = [result EXCEPT ![t] = "ok"]
  /\ UNCHANGED <<ndebug, aborted, queueVars, mMutex, op, item, expired,
                 nGuards, nTaskDone, pushed, popped, doneCount, signalled,
                 doneAtEnq>>

(* ----------------------- waking up from a wait ------------------------- *)

\* a spurious wake-up of a suspended thread
SpuriousWake(t) ==
  /\ ~aborted /\ pc[t] = "asleep"
  /\ pc' = [pc EXCEPT ![t] = "woken"]
  /\ UNCHANGED <<ndebug, aborted, queueVars, mMutex, op, localVars, guardVars,
                 nTaskDone, histVars>>

\* the timeout of wait_for passes while the thread is suspended or is
\* waiting to get the mutex back
Expire(t) ==
  /\ ~aborted /\ op[t] \in TimedOps /\ pc[t] \in {"asleep", "woken"}
  /\ ~expired[t]
  /\ expired' = [expired EXCEPT ![t] = TRUE]
  /\ pc' = [pc EXCEPT ![t] = "woken"]
  /\ UNCHANGED <<ndebug, aborted, queueVars, mMutex, op, item, result,
                 guardVars, nTaskDone, histVars>>

\* a woken thread gets the mutex back before its wait goes on
Relock(t) ==
  /\ ~aborted /\ pc[t] = "woken" /\ mMutex = 0
  /\ mMutex' = t
  /\ pc' = [pc EXCEPT ![t] = "wait"]
  /\ UNCHANGED <<ndebug, aborted, queueVars, op, localVars, guardVars,
                 nTaskDone, histVars>>

(* ------------------------------ TaskDone ------------------------------- *)

\* a thread calls TaskDone() and gets the mutex: LockGuard lock(mMutex)
CallTaskDone(t) ==
  /\ ~aborted /\ pc[t] = "idle" /\ mMutex = 0
  /\ nTaskDone < MaxTaskDone
  /\ mMutex' = t
  /\ op' = [op EXCEPT ![t] = "TaskDone"]
  /\ pc' = [pc EXCEPT ![t] = "td_body"]
  /\ nTaskDone' = nTaskDone + 1
  /\ UNCHANGED <<ndebug, aborted, queueVars, localVars, guardVars, histVars>>

\* LockGuard lock(mMutex) of the TaskDone() that the temporary guard of a
\* PopWithGuard(timeout) calls while TimeoutError unwinds the stack
TaskDoneLock(t) ==
  /\ ~aborted /\ pc[t] = "td_lock" /\ mMutex = 0
  /\ mMutex' = t
  /\ pc' = [pc EXCEPT ![t] = "td_body"]
  /\ UNCHANGED <<ndebug, aborted, queueVars, op, localVars, guardVars,
                 nTaskDone, histVars>>

\* how a call that ran TaskDone() ends: a timed PopWithGuard that is
\* unwinding leaves with TimeoutError, TaskDone and a guard's destructor return
AfterTaskDone(o) == IF o = "PopWithGuardTimed" THEN "timeout" ELSE "ok"

\* assert(mUnfinishedTasks > 0); --mUnfinishedTasks;
\* if (mUnfinishedTasks == 0) mAllTasksDone.notify_all(); and the unlock
TaskDoneBody(t) ==
  /\ ~aborted /\ pc[t] = "td_body" /\ mMutex = t
  /\ IF ~ndebug /\ ~TaskDoneAssert(mUnfinishedTasks)
       THEN /\ aborted' = TRUE
            /\ UNCHANGED <<mUnfinishedTasks, mMutex, pc, result, doneCount,
                           tmpGuard>>
       ELSE /\ mUnfinishedTasks' = Decr(mUnfinishedTasks)
            /\ doneCount' = doneCount + 1
            /\ mMutex' = 0
            /\ pc' = [IF TaskDoneNotifies(mUnfinishedTasks')
                        THEN NotifyAll(AllTasksDoneWaiters, pc)
                        ELSE pc EXCEPT ![t] = "ret"]
            /\ result' = [result EXCEPT ![t] = AfterTaskDone(op[t])]
            /\ tmpGuard' = [tmpGuard EXCEPT ![t] = NoGuard]
            /\ UNCHANGED aborted
  /\ UNCHANGED <<ndebug, mQ, op, item, expired, guard, nGuards, nTaskDone,
                 pushed, popped, signalled, handedOut, doneAtEnq>>

(* --------------------- user code handling guards ----------------------- *)

\* TaskDoneGuard b(std::move(a)) on a guard a that user code holds
GuardMoveCtor(t, src) ==
  /\ ~aborted /\ pc[t] = "idle"
  /\ guard[src].st = "alive"
  /\ nGuards < MaxGuards
  /\ nGuards' = nGuards + 1
  /\ LET g == FreshGuard IN
       guard' = [guard EXCEPT
                   ![g] = [st |-> "alive", q |-> MoveCtorSelf(guard[src].q)],
                   ![src].q = MoveCtorOther(guard[src].q)]
  /\ UNCHANGED <<ndebug, aborted, queueVars, mMutex, pc, op, localVars,
                 tmpGuard, nTaskDone, histVars>>

\* dst = std::move(src) on guards that user code holds, dst = src included
GuardMoveAssign(t, dst, src) ==
  /\ ~aborted /\ pc[t] = "idle"
  /\ guard[dst].st = "alive" /\ guard[src].st = "alive"
  /\ guard' = MoveAssign(guard, dst, src)
  /\ UNCHANGED <<ndebug, aborted, queueVars, mMutex, pc, op, localVars,
                 tmpGuard, nGuards, nTaskDone, histVars>>

\* a guard that user code holds goes out of scope: ~TaskDoneGuard(), with
\* the LockGuard of the TaskDone() it calls
GuardDestroy(t, g) ==
  /\ ~aborted /\ pc[t] = "idle"
  /\ guard[g].st = "alive"
  /\ guard' = [guard EXCEPT ![g].st = "dead"]
  /\ IF DtorCallsTaskDone(guard[g].q)
       THEN /\ mMutex = 0
            /\ mMutex' = t
            /\ op' = [op EXCEPT ![t] = "GuardDtor"]
            /\ pc' = [pc EXCEPT ![t] = "td_body"]
            /\ signalled' = [signalled EXCEPT ![guard[g].q] = @ + 1]
       ELSE UNCHANGED <<mMutex, op, pc, signalled>>
  /\ UNCHANGED <<ndebug, aborted, queueVars, localVars, tmpGuard, nGuards,
                 nTaskDone, pushed, popped, doneCount, handedOut, doneAtEnq>>

\* the call returns to user code, or TimeoutError reaches it
Return(t) ==
  /\ ~aborted /\ pc[t] = "ret"
  /\ pc' = [pc EXCEPT ![t] = "idle"]
  /\ op' = [op EXCEPT ![t] = "none"]
  /\ item' = [item EXCEPT ![t] = 0]
  /\ result' = [result EXCEPT ![t] = "none"]
  /\ expired' = [expired EXCEPT ![t] = FALSE]
  /\ doneAtEnq' = [doneAtEnq EXCEPT ![t] = 0]
  /\ UNCHANGED <<ndebug, aborted, queueVars, mMutex, guardVars, nTaskDone,
                 pushed, popped, doneCount, signalled, handedOut>>

(* ------------------------- the specifications -------------------------- *)

\* the steps a thread takes by itself once it is inside a call
Step(t) ==
  \/ PushBody(t) \/ PushNotify(t) \/ PushAndJoinBody(t) \/ DrainWait(t)
  \/ PopWait(t) \/ PopBody(t) \/ MakePair(t) \/ TaskDoneBody(t) \/ Return(t)
  \/ DtorAssert(t)

\* threads that use the queue without guards
Next ==
  \/ \E t \in Threads : CallPush(t)
  \/ \E t \in Threads : CallEmplace(t)
  \/ \E t \in Threads : PushBody(t)
  \/ \E t \in Threads : PushNotify(t)
  \/ \E t \in Threads : CallPushAndJoin(t)
  \/ \E t \in Threads : CallEmplaceAndJoin(t)
  \/ \E t \in Threads : PushAndJoinBody(t)
  \/ \E t \in Threads : CallJoin(t)
  \/ \E t \in Threads : DrainWait(t)
  \/ \E t \in Threads : CallPopUntimed(t)
  \/ \E t \in Threads : CallPopTimed(t)
  \/ \E t \in Threads : PopWait(t)
  \/ \E t \in Threads : PopBody(t)
  \/ \E t \in Threads : SpuriousWake(t)
  \/ \E t \in Threads : Expire(t)
  \/ \E t \in Threads : Relock(t)
  \/ \E t \in Threads : CallTaskDone(t)
  \/ \E t \in Threads : TaskDoneBody(t)
  \/ \E t \in Threads : Return(t)

Spec == Init /\ [][Next]_vars

\* A thread inside a call goes on running, a timeout passes, and a thread
\* that keeps finding the mutex free gets it.  Nothing makes user code call
\* the queue, and nothing makes a spurious wake-up happen.
Fairness ==
  \A t \in Threads :
    /\ WF_vars(Step(t))
    /\ WF_vars(Expire(t))
    /\ SF_vars(Relock(t))
    /\ SF_vars(TaskDoneLock(t))

FairSpec == Spec /\ Fairness

\* threads that enqueue with Push and dequeue with PopWithGuard, holding,
\* moving and dropping the guards
NextGuard ==
  \/ \E t \in Threads : CallPush(t)
  \/ \E t \in Threads : PushBody(t)
  \/ \E t \in Threads : PushNotify(t)
  \/ \E t \in Threads : CallPopWithGuard(t)
  \/ \E t \in Threads : CallPopWithGuardTimed(t)
  \/ \E t \in Threads : PopWait(t)
  \/ \E t \in Threads : PopBody(t)
  \/ \E t \in Threads : MakePair(t)
  \/ \E t \in Threads : SpuriousWake(t)
  \/ \E t \in Threads : Expire(t)
  \/ \E t \in Threads : Relock(t)
  \/ \E t \in Threads : TaskDoneLock(t)
  \/ \E t \in Threads : TaskDoneBody(t)
  \/ \E t \in Threads, src \in GuardIds : GuardMoveCtor(t, src)
  \/ \E t \in Threads, dst, src \in GuardIds : GuardMoveAssign(t, dst, src)
  \/ \E t \in Threads, g \in GuardIds : GuardDestroy(t, g)
  \/ \E t \in Threads : Return(t)

SpecGuard == Init /\ [][NextGuard]_vars

\* threads that enqueue with Push, dequeue with Pop, call TaskDone and Join,
\* and one of which lets the queue go out of scope; nothing is done with a
\* queue that has been destroyed
NextDtor ==
  \/ \E t \in Threads : QueueLives /\ CallPush(t)
  \/ \E t \in Threads : QueueLives /\ PushBody(t)
  \/ \E t \in Threads : QueueLives /\ PushNotify(t)
  \/ \E t \in Threads : QueueLives /\ CallPopUntimed(t)
  \/ \E t \in Threads : QueueLives /\ PopWait(t)
  \/ \E t \in Threads : QueueLives /\ PopBody(t)
  \/ \E t \in Threads : QueueLives /\ CallTaskDone(t)
  \/ \E t \in Threads : QueueLives /\ TaskDoneBody(t)
  \/ \E t \in Threads : QueueLives /\ CallJoin(t)
  \/ \E t \in Threads : QueueLives /\ CallDtor(t)
  \/ \E t \in Threads : QueueLives /\ DrainWait(t)
  \/ \E t \in Threads : QueueLives /\ DtorAssert(t)
  \/ \E t \in Threads : QueueLives /\ SpuriousWake(t)
  \/ \E t \in Threads : QueueLives /\ Relock(t)
  \/ \E t \in Threads : QueueLives /\ Return(t)

SpecDtor == Init /\ [][NextDtor]_vars

\* producers that enqueue with Push and Emplace and consumers that dequeue
\* with Pop() and Pop(timeout); nobody calls TaskDone
NextPop ==
  \/ \E t \in Threads : CallPush(t)
  \/ \E t \in Threads : CallEmplace(t)
  \/ \E t \in Threads : PushBody(t)
  \/ \E t \in Threads : PushNotify(t)
  \/ \E t \in Threads : CallPopUntimed(t)
  \/ \E t \in Threads : CallPopTimed(t)
  \/ \E t \in Threads : PopWait(t)
  \/ \E t \in Threads : PopBody(t)
  \/ \E t \in Threads : SpuriousWake(t)
  \/ \E t \in Threads : Expire(t)
  \/ \E t \in Threads : Relock(t)
  \/ \E t \in Threads : Return(t)

SpecPop == Init /\ [][NextPop]_vars

FairSpecPop == SpecPop /\ Fairness

\* The program of the tests MultiPush and TaskDoneGuard: the thread that
\* owns the queue enqueues MaxPush items; a worker thread dequeues MaxPush
\* times, each time either with Pop() followed by TaskDone() or with
\* PopWithGuard(), whose guard it lets go out of scope; when the worker has
\* ended (worker.join()) the owner calls Join() and the queue goes out of
\* scope.
Producer == 1

Consumer == 2

\* the dequeues of the worker whose completion it has signalled or started to
\* signal: each TaskDone() call, and each guard that has been destroyed
Accounted ==
  nTaskDone + Cardinality({g \in GuardIds : guard[g].st = "dead"})

\* the worker is between two rounds of its loop
RoundDone ==
  /\ pc[Consumer] = "idle"
  /\ \A g \in GuardIds : guard[g].st # "alive"
  /\ Accounted = Len(popped)

\* the worker starts a call, or lets its guard go out of scope
WorkerCall(t) ==
  /\ t = Consumer
  /\ \/ RoundDone /\ Len(popped) < MaxPush /\ nTaskDone < MaxTaskDone
        /\ CallPopUntimed(t)
     \/ RoundDone /\ Len(popped) < MaxPush /\ CallPopWithGuard(t)
     \/ (\A g \in GuardIds : guard[g].st # "alive")
        /\ Accounted < Len(popped) /\ CallTaskDone(t)
     \/ \E g \in GuardIds : GuardDestroy(t, g)

\* the owner of the queue starts a call, or leaves the scope of the queue
OwnerCall(t) ==
  /\ t = Producer
  /\ \/ CallPush(t)
     \/ Len(pushed) = MaxPush /\ RoundDone /\ Len(popped) = MaxPush
        /\ CallJoin(t)
     \/ JoinThenDtor(t)

\* a thread of the program gets the mutex: at the start of a call, or when
\* a wait ends
E2ELock(t) == OwnerCall(t) \/ WorkerCall(t) \/ Relock(t)

\* a thread of the program goes on inside a call
E2ERun(t) ==
  \/ PushBody(t) \/ PushNotify(t) \/ PopWait(t) \/ PopBody(t) \/ MakePair(t)
  \/ TaskDoneBody(t) \/ DrainWait(t) \/ DtorAssert(t)
  \/ op[t] # "Join" /\ Return(t)

NextE2E ==
  \/ \E t \in Threads : QueueLives /\ OwnerCall(t)
  \/ \E t \in Threads : QueueLives /\ WorkerCall(t)
  \/ \E t \in Threads : QueueLives /\ Relock(t)
  \/ \E t \in Threads : QueueLives /\ SpuriousWake(t)
  \/ \E t \in Threads : QueueLives /\ E2ERun(t)

SpecE2E == Init /\ [][NextE2E]_vars

\* Both threads keep running, and a thread that keeps finding the mutex
\* free gets it; nothing makes a spurious wake-up happen.
FairSpecE2E ==
  /\ SpecE2E
  /\ \A t \in Threads :
       /\ WF_vars(QueueLives /\ E2ERun(t))
       /\ SF_vars(QueueLives /\ E2ELock(t))

\* threads that enqueue with Push and dequeue with PopWithGuard(), holding,
\* moving and dropping the guards
NextMove ==
  \/ \E t \in Threads : CallPush(t)
  \/ \E t \in Threads : PushBody(t)
  \/ \E t \in Threads : PushNotify(t)
  \/ \E t \in Threads : CallPopWithGuard(t)
  \/ \E t \in Threads : PopWait(t)
  \/ \E t \in Threads : PopBody(t)
  \/ \E t \in Threads : MakePair(t)
  \/ \E t \in Threads : SpuriousWake(t)
  \/ \E t \in Threads : Relock(t)
  \/ \E t \in Threads : TaskDoneBody(t)
  \/ \E t \in Threads, src \in GuardIds : GuardMoveCtor(t, src)
  \/ \E t \in Threads, dst, src \in GuardIds : GuardMoveAssign(t, dst, src)
  \/ \E t \in Threads, g \in GuardIds : GuardDestroy(t, g)
  \/ \E t \in Threads : Return(t)

SpecMove == Init /\ [][NextMove]_vars

\* the number of calls of Pop() that have returned an item to user code
ReturnedByPop ==
  Len(popped)
    - Cardinality(handedOut)
    - Cardinality({t \in Threads : op[t] \in GuardedOps /\ pc[t] = "mkpair"})
    - Cardinality({t \in Threads : op[t] = "Pop" /\ pc[t] = "ret"})

\* user code calls TaskDone() for an item that a Pop() has returned and
\* that no TaskDone() was called for yet
CallTaskDoneAfterPop(t) == CallTaskDone(t) /\ nTaskDone < ReturnedByPop

\* threads that signal a completion only for an item that was dequeued: with
\* TaskDone() after the Pop() that returned it, or by dropping the guard
\* that PopWithGuard() returned with it; they enqueue with Push and with
\* PushAndJoin, which waits for the drain, and one of them lets the queue go
\* out of scope, which waits for the drain in Join()
NextOrdered ==
  \/ \E t \in Threads : QueueLives /\ CallPush(t)
  \/ \E t \in Threads : QueueLives /\ PushBody(t)
  \/ \E t \in Threads : QueueLives /\ PushNotify(t)
  \/ \E t \in Threads : QueueLives /\ CallPushAndJoin(t)
  \/ \E t \in Threads : QueueLives /\ PushAndJoinBody(t)
  \/ \E t \in Threads : QueueLives /\ CallPopUntimed(t)
  \/ \E t \in Threads : QueueLives /\ CallPopWithGuard(t)
  \/ \E t \in Threads : QueueLives /\ PopWait(t)
  \/ \E t \in Threads : QueueLives /\ PopBody(t)
  \/ \E t \in Threads : QueueLives /\ MakePair(t)
  \/ \E t \in Threads : QueueLives /\ CallTaskDoneAfterPop(t)
  \/ \E t \in Threads : QueueLives /\ TaskDoneBody(t)
  \/ \E t \in Threads, g \in GuardIds : QueueLives /\ GuardDestroy(t, g)
  \/ \E t \in Threads : QueueLives /\ CallDtor(t)
  \/ \E t \in Threads : QueueLives /\ DrainWait(t)
  \/ \E t \in Threads : QueueLives /\ DtorAssert(t)
  \/ \E t \in Threads : QueueLives /\ Relock(t)
  \/ \E t \in Threads : QueueLives /\ Return(t)

SpecOrdered == Init /\ [][NextOrdered]_vars

(* ------------------------------ the claims ----------------------------- *)

\* thread t takes a step of its own: its position changes, and not by being
\* woken from a wait
Acts(t) == pc[t] # "asleep" /\ pc'[t] # pc[t]

\* thread t takes a step of a call of operation o, the call and the return
\* included
ActsIn(t, o) == Acts(t) /\ (op[t] = o \/ op'[t] = o)

\* C1: the items removed so far, in the order of removal, followed by the
\* buffer, are the items appended so far, in the order of appending: no item
\* is lost, none is delivered twice, and items leave in FIFO order.
C1_Fifo == popped \o mQ = pushed

\* C1 witness: two items were appended, the first was removed and the second
\* is still in the buffer
C1_Witness == pushed = <<1, 2>> /\ popped = <<1>> /\ mQ = <<2>>

\* C2: the counter is the number of completed enqueues minus the number of
\* completed TaskDone decrements.
C2_CounterIsEnqueuesMinusCompletions ==
  mUnfinishedTasks = Len(pushed) - doneCount

\* C3: a TaskDone that finds the counter at 0 ends in the assertion failure
\* and leaves the counter as it is: it never decrements it.
C3_TaskDoneAtZeroIsFatal ==
  [][\A t \in Threads :
       (pc[t] = "td_body" /\ mMutex = t /\ mUnfinishedTasks = 0
          /\ (pc'[t] # pc[t] \/ aborted' # aborted))
       => (aborted' /\ mUnfinishedTasks' = mUnfinishedTasks)]_vars

\* C4: every step of Join leaves the buffer and the counter unchanged; Join
\* returns only from a check, made with the mutex held, that finds the counter
\* at 0; and a check that finds the counter at 0 returns, so that a Join
\* called on a drained queue never suspends.
C4_JoinReturnsOnlyWhenDrained ==
  [][\A t \in Threads :
       ActsIn(t, "Join") =>
         /\ UNCHANGED <<mQ, mUnfinishedTasks>>
         /\ pc'[t] = "ret" => (pc[t] = "wait" /\ mMutex = t
                                 /\ mUnfinishedTasks = 0)
         /\ (pc[t] = "wait" /\ mUnfinishedTasks = 0) => pc'[t] = "ret"]_vars

\* C4 witness: a Join has returned on a queue that has had unfinished tasks
C4_Witness ==
  \E t \in Threads :
    op[t] = "Join" /\ pc[t] = "ret" /\ doneCount > 0 /\ mUnfinishedTasks = 0

\* C5: once as many TaskDone have been performed as items were enqueued, and
\* that stays so, no thread stays blocked in Join or PushAndJoin.
C5_DrainedWaitersReturn ==
  <>[](Len(pushed) = doneCount /\ ~aborted)
    => \A t \in Threads :
         <>[]~(op[t] \in DrainOps /\ pc[t] \in {"asleep", "woken"})

\* C6: for every dequeue that returned a guard, either one live guard is
\* responsible for its completion and no TaskDone was called for it, or no
\* guard is and TaskDone was called for it once.
C6_GuardExactlyOnce ==
  \A o \in handedOut :
    signalled[o]
      + Cardinality({g \in GuardIds : guard[g].st = "alive" /\ guard[g].q = o})
      = 1

\* C7: no step of a PopWithGuard(timeout), other than taking the item, changes
\* the buffer or the counter or runs into the assertion of TaskDone.
C7_TimedOutPopWithGuardChangesNothing ==
  [][\A t \in Threads :
       (ActsIn(t, "PopWithGuardTimed") /\ pc[t] # "body")
       => (UNCHANGED <<mQ, mUnfinishedTasks>> /\ pc'[t] # "td_body")]_vars

\* C8: a Pop(timeout) changes the buffer and the counter in one step only,
\* the one that takes the head item, keeps the counter and makes the call
\* return the item; a check that finds an item goes on to that step; and the
\* call ends with TimeoutError only from a check that finds the buffer empty,
\* having changed nothing.
C8_TimedPop ==
  [][\A t \in Threads :
       ActsIn(t, "PopTimed") =>
         /\ pc[t] = "body" =>
              /\ mQ # <<>>
              /\ item'[t] = Head(mQ)
              /\ mQ' = Tail(mQ)
              /\ mUnfinishedTasks' = mUnfinishedTasks
              /\ pc'[t] = "ret" /\ result'[t] = "ok"
         /\ pc[t] # "body" => UNCHANGED <<mQ, mUnfinishedTasks>>
         /\ (pc[t] = "wait" /\ mQ # <<>>) => pc'[t] = "body"
         /\ (pc'[t] = "ret" /\ result'[t] = "timeout") =>
              (pc[t] = "wait" /\ mMutex = t /\ mQ = <<>> /\ expired[t])]_vars

\* C8 witness: a Pop(timeout) has ended with TimeoutError on a queue that
\* still counts an unfinished task
C8_Witness ==
  \E t \in Threads :
    /\ op[t] = "PopTimed" /\ pc[t] = "ret" /\ result[t] = "timeout"
    /\ mQ = <<>> /\ mUnfinishedTasks = 1 /\ popped = <<1>>

\* C9: Pop() goes on from a check only when the buffer is not empty, and
\* suspends when it is; it returns only from the step that takes the head
\* item, which removes that item alone and returns it; no step of it changes
\* the counter; and no Pop returns while nothing was ever enqueued.
C9_UntimedPop ==
  [][\A t \in Threads :
       ActsIn(t, "Pop") =>
         /\ mUnfinishedTasks' = mUnfinishedTasks
         /\ pc[t] = "wait" =>
              pc'[t] = (IF mQ # <<>> THEN "body" ELSE "asleep")
         /\ pc[t] = "body" =>
              /\ mQ # <<>> /\ mMutex = t
              /\ item'[t] = Head(mQ)
              /\ mQ' = Tail(mQ)
         /\ pc[t] # "body" => mQ' = mQ
         /\ pc'[t] = "ret" => (pc[t] = "body" /\ pushed # <<>>)]_vars

\* C9 witness: a Pop() has returned the first of two items, the second is
\* still in the buffer and both still count as unfinished
C9_Witness ==
  \E t \in Threads :
    /\ op[t] = "Pop" /\ pc[t] = "ret" /\ item[t] = 1
    /\ mQ = <<2>> /\ mUnfinishedTasks = 2

\* C10: when PushAndJoin returns, at least one TaskDone has been performed
\* since it appended its item.
C10_TaskDoneAfterOwnEnqueue ==
  \A t \in Threads :
    (op[t] = "PushAndJoin" /\ pc[t] = "ret") => doneCount > doneAtEnq[t]

WaitsInPop(t) == op[t] = "Pop" /\ pc[t] \in {"asleep", "woken", "wait"}

\* C12: a Push or Emplace never waits on a condition and always completes;
\* and a state in which the buffer holds an item while a thread is in the
\* wait of an untimed Pop never lasts: the item is removed or the waiting
\* thread leaves its wait, which it does only by taking an item (unless a
\* failed assertion has ended the process).  So no Pop stays blocked for
\* ever on a buffer that holds an item.
C12_NoLostWakeUpNotEmpty ==
  /\ [](\A t \in Threads :
          op[t] = "Push" => pc[t] \in {"body", "notify", "ret"})
  /\ \A t \in Threads : []<>(op[t] # "Push" \/ aborted)
  /\ []<>(mQ = <<>> \/ aborted \/ \A t \in Threads : ~WaitsInPop(t))

\* C12 witness: a thread that was blocked in Pop() has been notified by a
\* Push and the pushed item is in the buffer
C12_Witness ==
  \E t, u \in Threads :
    /\ op[t] = "Pop" /\ pc[t] = "woken" /\ mQ = <<1>> /\ popped = <<>>
    /\ op[u] = "Push" /\ pc[u] = "ret"

\* C13: in the program of one producer and one consumer that signals the
\* completion of every item it dequeued, no assertion fails, the Join that
\* follows the end of both threads never suspends, and in the end the queue
\* is destroyed, every item having been received in the order of enqueueing.
C13_EndToEnd ==
  /\ [](~aborted)
  /\ [](\A t \in Threads :
          op[t] = "Join" => pc[t] \in {"wait", "ret"})
  /\ <>(/\ pc[Producer] = "destroyed" /\ pc[Consumer] = "idle"
        /\ Len(pushed) = MaxPush /\ popped = pushed
        /\ mUnfinishedTasks = 0)

\* C13 witness: the queue has been destroyed after the consumer signalled
\* one completion with TaskDone() and one through a guard
C13_Witness ==
  /\ pc[Producer] = "destroyed" /\ popped = pushed /\ Len(pushed) = MaxPush
  /\ nTaskDone > 0 /\ \E g \in GuardIds : signalled[g] = 1

\* the guards that are responsible for a completion
Responsible == {g \in GuardIds : guard[g].st = "alive" /\ guard[g].q # NullQ}

\* the number of TaskDone calls that guards have made for the dequeues in S
RECURSIVE SignalledFor(_)
SignalledFor(S) ==
  IF S = {} THEN 0
  ELSE LET o == CHOOSE x \in S : TRUE
       IN signalled[o] + SignalledFor(S \ {o})

\* C14: however guards are moved, the number of responsible guards plus the
\* number of TaskDone calls that guards have made is the number of
\* PopWithGuard calls that returned a guard: no move discards or duplicates
\* a pending completion.
C14_MovesConserveResponsibility ==
  Cardinality(Responsible) + SignalledFor(GuardIds) = Cardinality(handedOut)

TakesOver(g) ==
  \E src \in GuardIds \ {g} :
    /\ guard[src].st = "alive" /\ guard[src].q # NullQ
    /\ guard'[g].q = guard[src].q
    /\ guard'[src].q = NullQ

Accesses(t) ==
  \/ pc[t] \in {"wait", "body", "td_body"}
  \/ pc[t] = "dtor_assert" /\ ~ndebug

\* C16: a thread that is about to read or write the buffer or the counter
\* holds the mutex, so that no two threads are inside such an access at the
\* same time; and a suspended thread does not hold the mutex.
C16_SingleExclusionDomain ==
  /\ \A t \in Threads : Accesses(t) => mMutex = t
  /\ \A t, u \in Threads : (Accesses(t) /\ Accesses(u)) => t = u
  /\ \A t \in Threads : pc[t] \in {"asleep", "woken"} => mMutex # t

\* C17: no thread is suspended in a drain-wait (of Join, PushAndJoin,
\* EmplaceAndJoin or the destructor) with no wake-up pending while the
\* counter is 0.
C17_NoSleeperOnDrainedQueue ==
  mUnfinishedTasks = 0 => AllTasksDoneWaiters = {}

\* C18: a TaskDone that finds the counter above 0 takes exactly one off it,
\* fails no assertion and returns; and no step of a TaskDone call changes
\* the buffer, whichever thread makes the call and whether or not the item
\* was dequeued.
C18_TaskDoneDecrementsByOne ==
  [][\A t \in Threads :
       /\ ActsIn(t, "TaskDone") => mQ' = mQ
       /\ (op[t] = "TaskDone" /\ pc[t] = "td_body" /\ mUnfinishedTasks > 0
              /\ pc'[t] # pc[t])
            => /\ mUnfinishedTasks' = mUnfinishedTasks - 1
               /\ pc'[t] = "ret" /\ ~aborted']_vars

\* C18 witness: in a build with assertions, the queue has been destroyed
\* with both items still in its buffer, after two calls of TaskDone
C18_Witness ==
  \E t \in Threads :
    /\ ~ndebug /\ pc[t] = "destroyed"
    /\ mQ = <<1, 2>> /\ popped = <<>> /\ doneCount = 2
    /\ mUnfinishedTasks = 0

\* C19: when every completion is signalled after the item it accounts for
\* was dequeued, the buffer never holds more items than the counter says,
\* and a wait of Join, PushAndJoin or the destructor returns only when the
\* buffer is empty and every item enqueued has been dequeued.
C19_BufferedAtMostUnfinished ==
  [][/\ Len(mQ') <= mUnfinishedTasks'
     /\ \A t \in Threads :
          (op[t] \in DrainOps /\ pc[t] = "wait"
             /\ pc'[t] \in {"ret", "dtor_assert"})
          => (mQ = <<>> /\ popped = pushed)]_vars

\* C19 witness: the wait of the destructor has returned after both items
\* were dequeued, one completion having been signalled with TaskDone() and
\* one by a guard
C19_Witness ==
  \E t \in Threads :
    /\ op[t] = "Dtor" /\ pc[t] = "dtor_assert"
    /\ Len(pushed) = 2 /\ popped = pushed /\ mQ = <<>>
    /\ nTaskDone = 1 /\ handedOut # {}

\* C20: a Pop(timeout) ends with TimeoutError only from a check, made with
\* the mutex held after the timeout has passed, that finds the buffer empty,
\* so that the buffer is empty right after the decision; a check that finds
\* an item, after the timeout has passed too, goes on to take it, and the
\* call then removes the head item and returns it.
C20_TimeoutOnlyOnEmptyBuffer ==
  [][\A t \in Threads :
       (op[t] = "PopTimed" /\ pc'[t] # pc[t]) =>
         /\ (pc'[t] = "ret" /\ result'[t] = "timeout")
              => /\ pc[t] = "wait" /\ mMutex = t /\ expired[t]
                 /\ mQ = <<>> /\ mQ' = <<>>
         /\ (pc[t] = "wait" /\ mQ # <<>>)
              => (pc'[t] = "body" /\ mMutex' = t /\ mQ' = mQ)
         /\ pc[t] = "body"
              => /\ popped' = Append(popped, Head(mQ))
                 /\ item'[t] = Head(mQ)
                 /\ pc'[t] = "ret" /\ result'[t] = "ok"]_vars

\* C20 witness: a Pop(timeout) whose timeout had passed has returned an
\* item all the same
C20_Witness ==
  \E t \in Threads :
    /\ op[t] = "PopTimed" /\ pc[t] = "ret" /\ expired[t]
    /\ result[t] = "ok" /\ item[t] = 1 /\ popped = <<1>>

=============================================================================
